---- MODULE Spec2Model ----
(***************************************************************************)
(* Blue Pixel AI chatbot: the message pipeline of AIService                *)
(* (src/src/services/aiService.js) and the Socket.IO session transport of  *)
(* the two server variants (aiService.js lines 584-643, server.js lines    *)
(* 137-200).                                                               *)
(*                                                                         *)
(* Text is a sequence of one-character strings, so that substring          *)
(* containment, lowercasing and the number regex are computed on the       *)
(* characters, as String.prototype.includes / toLowerCase / match do.      *)
(* Numbers are kept in hundredths (450,000 is 45000000, 7.2 is 720).       *)
(***************************************************************************)
EXTENDS Integers, Sequences, FiniteSets, TLC

(* ------------------------------ bounds --------------------------------- *)
\* phrases concatenated into one message text
MaxPhrases == 2
\* tool invocations that throw during one processMessage call
MaxFaults == 1
\* chat_message events handled by the server in one run
MaxTasks == 2
\* sockets that may connect in one run
NumSockets == 2

(* ------------------------------ text ----------------------------------- *)
UpperCase == <<"A","B","C","D","E","F","G","H","I","J","K","L","M",
               "N","O","P","Q","R","S","T","U","V","W","X","Y","Z">>
LowerCase == <<"a","b","c","d","e","f","g","h","i","j","k","l","m",
               "n","o","p","q","r","s","t","u","v","w","x","y","z">>
Digits == <<"0","1","2","3","4","5","6","7","8","9">>

IndexOf(c, seq) ==
  IF \E i \in 1..Len(seq) : seq[i] = c
  THEN CHOOSE i \in 1..Len(seq) : seq[i] = c
  ELSE 0

\* the lower-case letter of each capital
LowerOf ==
  [c \in {UpperCase[k] : k \in 1..Len(UpperCase)} |->
     LowerCase[IndexOf(c, UpperCase)]]

\* String.prototype.toLowerCase
toLowerCase(text) ==
  [i \in 1..Len(text) |->
     IF text[i] \in DOMAIN LowerOf THEN LowerOf[text[i]] ELSE text[i]]

\* String.prototype.includes
includes(text, keyword) ==
  \E i \in 1..(Len(text) - Len(keyword) + 1) :
     SubSeq(text, i, i + Len(keyword) - 1) = keyword

\* Array.prototype.filter
filter(list, text) ==
  LET callback(keyword) == includes(text, keyword)
  IN  SelectSeq(list, callback)

\* containsAny(text, keywords): keywords.some(keyword => text.includes(keyword))
containsAny(text, keywords) ==
  \E k \in 1..Len(keywords) : includes(text, keywords[k])

(* --------------------------- the relevance gate ------------------------ *)
propertyKeywords ==
  << <<"p","r","o","p","e","r","t","y">>,
     <<"h","o","u","s","e">>,
     <<"h","o","m","e">>,
     <<"a","p","a","r","t","m","e","n","t">>,
     <<"c","o","n","d","o">>,
     <<"r","e","a","l"," ","e","s","t","a","t","e">>,
     <<"b","u","y">>,
     <<"s","e","l","l">>,
     <<"r","e","n","t">>,
     <<"m","o","r","t","g","a","g","e">>,
     <<"l","o","a","n">>,
     <<"i","n","v","e","s","t","m","e","n","t">>,
     <<"r","o","i">>,
     <<"b","e","d","r","o","o","m">>,
     <<"b","a","t","h","r","o","o","m">>,
     <<"s","q","u","a","r","e"," ","f","e","e","t">>,
     <<"p","r","i","c","e">>,
     <<"l","o","c","a","t","i","o","n">>,
     <<"n","e","i","g","h","b","o","r","h","o","o","d">>,
     <<"m","a","r","k","e","t">>,
     <<"l","i","s","t","i","n","g">>,
     <<"a","g","e","n","t">>,
     <<"b","r","o","k","e","r">> >>

\* the fixed redirect text of validatePromptRelevance
RedirectText == "I'm here to help with property investment and real estate questions. How can I assist you with property details, market analysis, or investment calculations?"

\* validatePromptRelevance with the test relevantKeywords >= 0
validatePromptRelevance_AlwaysValid(message) ==
  LET messageLower == toLowerCase(message)
      relevantKeywords == Len(filter(propertyKeywords, messageLower))
      isValid == relevantKeywords >= 0
  IN  [isValid |-> isValid,
       relevantKeywords |-> relevantKeywords,
       filteredContent |-> IF isValid THEN <<>> ELSE <<RedirectText>>]

\* validatePromptRelevance(message), for a string message
validatePromptRelevance(message) ==
  LET matches[messageLower \in {toLowerCase(message)}] ==
        filter(propertyKeywords, messageLower)
      relevantKeywords == Len(matches[toLowerCase(message)])
      isValid == relevantKeywords > 0
  IN  [isValid |-> isValid,
       relevantKeywords |-> relevantKeywords,
       filteredContent |-> IF isValid THEN <<>> ELSE <<RedirectText>>]

(* ----------------------------- the classifier -------------------------- *)
searchKeywords ==
  << <<"f","i","n","d">>,
     <<"s","e","a","r","c","h">>,
     <<"s","h","o","w">>,
     <<"p","r","o","p","e","r","t","i","e","s">>,
     <<"h","o","u","s","e","s">> >>
mortgageKeywords ==
  << <<"m","o","r","t","g","a","g","e">>,
     <<"p","a","y","m","e","n","t">>,
     <<"l","o","a","n">>,
     <<"c","a","l","c","u","l","a","t","e">> >>
rateKeywords ==
  << <<"i","n","t","e","r","e","s","t">>,
     <<"r","a","t","e">>,
     <<"r","a","t","e","s">> >>
financialKeywords ==
  << <<"r","o","i">>,
     <<"r","e","t","u","r","n">>,
     <<"i","n","v","e","s","t","m","e","n","t">>,
     <<"c","a","p"," ","r","a","t","e">> >>
detailsKeywords ==
  << <<"d","e","t","a","i","l","s">>,
     <<"i","n","f","o","r","m","a","t","i","o","n">>,
     <<"a","b","o","u","t"," ","p","r","o","p","e","r","t","y">> >>

\* determineRequiredTools with the tests in the order of the registry's keys
determineRequiredTools_RegistryOrder(message) ==
  LET messageLower == toLowerCase(message)
  IN  (IF containsAny(messageLower, searchKeywords)
         THEN <<"searchPropertyInfo">> ELSE <<>>)
      \o (IF containsAny(messageLower, detailsKeywords)
         THEN <<"getPropertyDetails">> ELSE <<>>)
      \o (IF containsAny(messageLower, rateKeywords)
         THEN <<"getInterestRates">> ELSE <<>>)
      \o (IF containsAny(messageLower, mortgageKeywords)
         THEN <<"calculateMortgage">> ELSE <<>>)
      \o (IF containsAny(messageLower, financialKeywords)
         THEN <<"getFinancialCalculator">> ELSE <<>>)

\* determineRequiredTools with the tests chained by else: the first match only
determineRequiredTools_FirstMatch(message) ==
  LET messageLower == toLowerCase(message)
  IN  IF containsAny(messageLower, searchKeywords)
        THEN <<"searchPropertyInfo">>
      ELSE IF containsAny(messageLower, mortgageKeywords)
        THEN <<"calculateMortgage">>
      ELSE IF containsAny(messageLower, rateKeywords)
        THEN <<"getInterestRates">>
      ELSE IF containsAny(messageLower, financialKeywords)
        THEN <<"getFinancialCalculator">>
      ELSE IF containsAny(messageLower, detailsKeywords)
        THEN <<"getPropertyDetails">>
      ELSE <<>>

\* determineRequiredTools(message): five independent tests, pushed in this order
\* (messageLower is computed once and the tests are made on its value)
determineRequiredTools(message) ==
  LET tools[messageLower \in {toLowerCase(message)}] ==
        (IF containsAny(messageLower, searchKeywords)
           THEN <<"searchPropertyInfo">> ELSE <<>>)
        \o (IF containsAny(messageLower, mortgageKeywords)
           THEN <<"calculateMortgage">> ELSE <<>>)
        \o (IF containsAny(messageLower, rateKeywords)
           THEN <<"getInterestRates">> ELSE <<>>)
        \o (IF containsAny(messageLower, financialKeywords)
           THEN <<"getFinancialCalculator">> ELSE <<>>)
        \o (IF containsAny(messageLower, detailsKeywords)
           THEN <<"getPropertyDetails">> ELSE <<>>)
  IN  tools[toLowerCase(message)]

\* the keys of this.mcpTools, in declaration order
\* a registry that lacks getInterestRates: the loop skips that name
mcpTools_WithoutRates ==
  << "validatePromptRelevance", "searchPropertyInfo", "getUserChatHistory",
     "getPropertyDetails", "calculateMortgage",
     "getUserSavedProperties", "getServicedProperties",
     "calculateMortgageAdvanced", "getFinancialCalculator" >>

mcpTools ==
  << "validatePromptRelevance", "searchPropertyInfo", "getUserChatHistory",
     "getPropertyDetails", "getInterestRates", "calculateMortgage",
     "getUserSavedProperties", "getServicedProperties",
     "calculateMortgageAdvanced", "getFinancialCalculator" >>

(* --------------------------- number extraction ------------------------- *)
IsDigit(c) == IndexOf(c, Digits) > 0
DigitValue(c) == IndexOf(c, Digits) - 1

\* last index of the run of digits that starts at i (text[i] is a digit): \d+
RECURSIVE DigitRun(_, _)
DigitRun(text, i) ==
  IF i < Len(text) /\ IsDigit(text[i + 1]) THEN DigitRun(text, i + 1) ELSE i

\* (?:,\d{3})* after index e: each group is a comma and exactly three digits
RECURSIVE CommaGroups(_, _)
CommaGroups(text, e) ==
  IF /\ e + 4 <= Len(text)
     /\ text[e + 1] = ","
     /\ \A j \in (e + 2)..(e + 4) : IsDigit(text[j])
  THEN CommaGroups(text, e + 4)
  ELSE e

\* (?:\.\d+)? after index e
Fraction(text, e) ==
  IF e + 2 <= Len(text) /\ text[e + 1] = "." /\ IsDigit(text[e + 2])
  THEN DigitRun(text, e + 2)
  ELSE e

\* the match of /\d+(?:\.\d+)?/, without the comma groups
MatchEnd_NoGroups(text, i) == Fraction(text, DigitRun(text, i))

\* last index of the match of /\d+(?:,\d{3})*(?:\.\d+)?/ that starts at i
MatchEnd(text, i) == Fraction(text, CommaGroups(text, DigitRun(text, i)))

\* parseFloat(num.replace(/,/g, '')), in hundredths; fraction digits after
\* the second are dropped
RECURSIVE ParseDigits(_, _)
ParseDigits(num, acc) ==
  IF num = <<>> THEN acc
  ELSE IF Head(num) = "," THEN ParseDigits(Tail(num), acc)
  ELSE ParseDigits(Tail(num), 10 * acc + DigitValue(Head(num)))

parseFloat(num) ==
  LET dot == IndexOf(".", num)
      whole == IF dot = 0 THEN num ELSE SubSeq(num, 1, dot - 1)
      frac == IF dot = 0 THEN <<>> ELSE SubSeq(num, dot + 1, Len(num))
      d1 == IF Len(frac) >= 1 THEN DigitValue(frac[1]) ELSE 0
      d2 == IF Len(frac) >= 2 THEN DigitValue(frac[2]) ELSE 0
  IN  100 * ParseDigits(whole, 0) + 10 * d1 + d2

\* the global match, left to right from index i
RECURSIVE MatchAll(_, _)
MatchAll(text, i) ==
  IF i > Len(text) THEN <<>>
  ELSE IF IsDigit(text[i])
       THEN <<SubSeq(text, i, MatchEnd(text, i))>>
            \o MatchAll(text, MatchEnd(text, i) + 1)
       ELSE MatchAll(text, i + 1)

\* extractNumbers(message)
extractNumbers(message) ==
  LET numbers == MatchAll(message, 1)
  IN  [k \in 1..Len(numbers) |-> parseFloat(numbers[k])]

(* ------------------------------- the tools ----------------------------- *)
\* a result record has an error exactly when it has an error field
HasError(result) == "error" \in DOMAIN result

searchPropertyInfo(message) ==
  [results |-> <<[price |-> 45000000, bedrooms |-> 3, bathrooms |-> 2],
                 [price |-> 32000000, roiEstimate |-> 850]>>,
   totalResults |-> 2]

getPropertyDetails(message) ==
  [propertyId |-> "prop_001", price |-> 45000000, bedrooms |-> 3,
   bathrooms |-> 2, squareFeet |-> 1800, roiEstimate |-> 850]

commonLocations ==
  << <<"d","o","w","n","t","o","w","n">>,
     <<"m","i","d","t","o","w","n">>,
     <<"u","p","t","o","w","n">>,
     <<"s","u","b","u","r","b","s">>,
     <<"c","a","l","i","f","o","r","n","i","a">>,
     <<"t","e","x","a","s">>,
     <<"f","l","o","r","i","d","a">>,
     <<"n","e","w"," ","y","o","r","k">>,
     <<"c","h","i","c","a","g","o">>,
     <<"l","o","s"," ","a","n","g","e","l","e","s">>,
     <<"m","i","a","m","i">> >>

\* location.charAt(0).toUpperCase() + location.slice(1)
Capitalize(location) ==
  [i \in 1..Len(location) |->
     IF i = 1 /\ IndexOf(location[i], LowerCase) > 0
     THEN UpperCase[IndexOf(location[i], LowerCase)]
     ELSE location[i]]

\* extractLocation(message): the first listed location the text contains,
\* or <<>> for null
extractLocation(message) ==
  LET messageLower == toLowerCase(message)
      hits == {k \in 1..Len(commonLocations) :
                 includes(messageLower, commonLocations[k])}
  IN  IF hits = {} THEN <<>>
      ELSE Capitalize(commonLocations[CHOOSE k \in hits : \A j \in hits : k <= j])

getInterestRates(message) ==
  LET location == extractLocation(message)
  IN  [location |-> IF location = <<>> THEN <<"U","n","i","t","e","d"," ","S","t","a","t","e","s">> ELSE location,
       currentRate |-> 720,
       rateTrend |-> "stable"]

\* the mortgage tool asking for the rate as well: an error below 3 numbers
calculateMortgage_NeedsRate(message) ==
  LET numbers == extractNumbers(message)
  IN  IF Len(numbers) < 3
      THEN [error |-> <<"Please provide property price and down payment for mortgage calculation">>]
      ELSE
        LET propertyPrice == numbers[1]
            downPayment == numbers[2]
            interestRate == IF Len(numbers) >= 3 /\ numbers[3] # 0
                            THEN numbers[3] ELSE 720
            loanTermYears == 30
            loanAmount == propertyPrice - downPayment
            numPayments == loanTermYears * 12
            monthlyPayment ==
              [formula |-> IF interestRate > 0 THEN "amortized" ELSE "linear",
               loanAmount |-> loanAmount,
               interestRate |-> interestRate,
               numPayments |-> numPayments]
        IN  [propertyPrice |-> propertyPrice,
             downPayment |-> downPayment,
             loanAmount |-> loanAmount,
             interestRate |-> interestRate,
             loanTermYears |-> loanTermYears,
             monthlyPayment |-> monthlyPayment,
             totalCost |-> [formula |-> "totalCost", monthlyPayment |-> monthlyPayment],
             totalInterest |-> [formula |-> "totalInterest", monthlyPayment |-> monthlyPayment]]

\* calculateMortgage(message). The payment is kept as the formula applied
\* to its arguments: Math.pow on doubles is not evaluated.
calculateMortgage(message) ==
  LET numbers == extractNumbers(message)
  IN  IF Len(numbers) < 2
      THEN [error |-> <<"Please provide property price and down payment for mortgage calculation">>]
      ELSE
        LET propertyPrice == numbers[1]
            downPayment == numbers[2]
            interestRate == IF Len(numbers) >= 3 /\ numbers[3] # 0
                            THEN numbers[3] ELSE 720
            loanTermYears == 30
            loanAmount == propertyPrice - downPayment
            numPayments == loanTermYears * 12
            monthlyPayment ==
              [formula |-> IF interestRate > 0 THEN "amortized" ELSE "linear",
               loanAmount |-> loanAmount,
               interestRate |-> interestRate,
               numPayments |-> numPayments]
        IN  [propertyPrice |-> propertyPrice,
             downPayment |-> downPayment,
             loanAmount |-> loanAmount,
             interestRate |-> interestRate,
             loanTermYears |-> loanTermYears,
             monthlyPayment |-> monthlyPayment,
             totalCost |-> [formula |-> "totalCost", monthlyPayment |-> monthlyPayment],
             totalInterest |-> [formula |-> "totalInterest", monthlyPayment |-> monthlyPayment]]

\* the least interestRate, in hundredths of a percent, for which
\* Math.pow(1 + monthlyRate, 360) exceeds the largest double and is Infinity
PowOverflowRate == 741876

\* monthlyPayment is NaN: loanAmount * (monthlyRate * Infinity) / Infinity
IsNaN(payment) ==
  /\ payment.formula = "amortized"
  /\ payment.interestRate >= PowOverflowRate

Abs(n) == IF n < 0 THEN -n ELSE n

\* Math.round(monthlyPayment * 100) is 0 or -0. The amortized payment of a
\* loan L lies between L * max(r, 1/n) and L * (r + 1/n) in size, r being
\* interestRate / 100 / 12 and n being 360; on hundredths, below half a cent
\* is |L| * (3 * rate + 10000) < 1800000 and at least half a cent is
\* |L| >= 180 or |L| * rate >= 600000. Between the two the rounding is not
\* decided here and both outcomes are kept.
RoundsToZero(payment) ==
  LET L == Abs(payment.loanAmount)
      rate == payment.interestRate
  IN  IF L = 0 THEN {TRUE}
      ELSE IF L >= 180 \/ L * rate >= 600000 THEN {FALSE}
      ELSE IF L * (3 * rate + 10000) < 1800000 THEN {TRUE}
      ELSE {TRUE, FALSE}

\* the signs the rounded monthlyPayment can have; totalCost and
\* totalInterest are NaN, below 0 or above 0 together with it
Signs(payment) ==
  IF IsNaN(payment) THEN {"NaN"}
  ELSE {IF z THEN "zero"
        ELSE IF payment.loanAmount < 0 THEN "negative" ELSE "positive" :
          z \in RoundsToZero(payment)}

\* Math.round(x * 100) / 100 of a quotient num / den that is not negative,
\* in hundredths: Math.round rounds a half up
RoundedCents(num, den) == (2 * num + den) \div (2 * den)

\* the advanced tool with the PMI charged up to and including 20 percent
calculateMortgageAdvanced_AtMost20(message) ==
  LET basicCalc == calculateMortgage(message)
  IN  IF HasError(basicCalc) THEN basicCalc
      ELSE
        LET price == basicCalc.propertyPrice
            below20 == price > 0 /\ basicCalc.downPayment * 5 <= price
            monthlyPmi == IF below20
                          THEN RoundedCents(basicCalc.loanAmount, 2400)
                          ELSE 0
        IN  [propertyPrice |-> price,
             downPayment |-> basicCalc.downPayment,
             loanAmount |-> basicCalc.loanAmount,
             interestRate |-> basicCalc.interestRate,
             loanTermYears |-> basicCalc.loanTermYears,
             monthlyPayment |-> basicCalc.monthlyPayment,
             totalCost |-> basicCalc.totalCost,
             totalInterest |-> basicCalc.totalInterest,
             advancedDetails |->
               [downPaymentPercent |->
                  [num |-> basicCalc.downPayment, den |-> price],
                monthlyPmi |-> monthlyPmi,
                monthlyPropertyTax |-> RoundedCents(price, 1000),
                monthlyInsurance |-> RoundedCents(price, 3000),
                totalMonthlyPayment |->
                  [formula |-> "sum",
                   monthlyPayment |-> basicCalc.monthlyPayment,
                   monthlyPmi |-> monthlyPmi]]]

\* calculateMortgageAdvanced(message). Amounts are in hundredths, so
\* (loanAmount * 0.5 / 100) / 12 is loanAmount / 2400, the tax is
\* propertyPrice / 1000 and the insurance propertyPrice / 3000;
\* downPaymentPercent < 20 is downPayment * 5 < propertyPrice for a price
\* above 0; with a price of 0 the percentage is Infinity or NaN, and
\* neither is below 20.
calculateMortgageAdvanced(message) ==
  LET basicCalc == calculateMortgage(message)
  IN  IF HasError(basicCalc) THEN basicCalc
      ELSE
        LET price == basicCalc.propertyPrice
            below20 == price > 0 /\ basicCalc.downPayment * 5 < price
            monthlyPmi == IF below20
                          THEN RoundedCents(basicCalc.loanAmount, 2400)
                          ELSE 0
        IN  [propertyPrice |-> price,
             downPayment |-> basicCalc.downPayment,
             loanAmount |-> basicCalc.loanAmount,
             interestRate |-> basicCalc.interestRate,
             loanTermYears |-> basicCalc.loanTermYears,
             monthlyPayment |-> basicCalc.monthlyPayment,
             totalCost |-> basicCalc.totalCost,
             totalInterest |-> basicCalc.totalInterest,
             advancedDetails |->
               [downPaymentPercent |->
                  [num |-> basicCalc.downPayment, den |-> price],
                monthlyPmi |-> monthlyPmi,
                monthlyPropertyTax |-> RoundedCents(price, 1000),
                monthlyInsurance |-> RoundedCents(price, 3000),
                totalMonthlyPayment |->
                  [formula |-> "sum",
                   monthlyPayment |-> basicCalc.monthlyPayment,
                   monthlyPmi |-> monthlyPmi]]]

\* the calculator with the cap-rate test made before the ROI test
getFinancialCalculator_CapRateFirst(message) ==
  LET numbers == extractNumbers(message)
      messageLower == toLowerCase(message)
  IN  IF includes(messageLower, <<"c","a","p"," ","r","a","t","e">>)
         /\ Len(numbers) >= 2
      THEN [calculationType |-> "cap_rate",
            annualIncome |-> numbers[1],
            propertyValue |-> numbers[2],
            capRatePercentage |-> [num |-> numbers[1], den |-> numbers[2]]]
      ELSE IF includes(messageLower, <<"r","o","i">>) /\ Len(numbers) >= 2
      THEN [calculationType |-> "roi",
            initialInvestment |-> numbers[1],
            annualReturn |-> numbers[2],
            roiPercentage |-> [num |-> numbers[2], den |-> numbers[1]]]
      ELSE [error |-> <<"Please specify calculation type (ROI or Cap Rate) with required numbers">>]

\* getFinancialCalculator(message). The percentage is kept as the ratio of
\* its two arguments.
getFinancialCalculator(message) ==
  LET numbers == extractNumbers(message)
      messageLower == toLowerCase(message)
  IN  IF includes(messageLower, <<"r","o","i">>) /\ Len(numbers) >= 2
      THEN [calculationType |-> "roi",
            initialInvestment |-> numbers[1],
            annualReturn |-> numbers[2],
            roiPercentage |-> [num |-> numbers[2], den |-> numbers[1]]]
      ELSE IF includes(messageLower, <<"c","a","p"," ","r","a","t","e">>)
              /\ Len(numbers) >= 2
      THEN [calculationType |-> "cap_rate",
            annualIncome |-> numbers[1],
            propertyValue |-> numbers[2],
            capRatePercentage |-> [num |-> numbers[1], den |-> numbers[2]]]
      ELSE [error |-> <<"Please specify calculation type (ROI or Cap Rate) with required numbers">>]

\* this.mcpTools[toolName](message, {userId, sessionId}) for the names the
\* classifier can return
InvokeTool(toolName, message) ==
  CASE toolName = "searchPropertyInfo" -> searchPropertyInfo(message)
    [] toolName = "calculateMortgage" -> calculateMortgage(message)
    [] toolName = "getInterestRates" -> getInterestRates(message)
    [] toolName = "getFinancialCalculator" -> getFinancialCalculator(message)
    [] toolName = "getPropertyDetails" -> getPropertyDetails(message)

(* ------------------------- tool results (an object) -------------------- *)
\* toolResults is a JS object: its keys in insertion order, as a sequence
\* of [name, result] entries
Keys(toolResults) == [k \in 1..Len(toolResults) |-> toolResults[k].name]
Has(toolResults, name) == \E k \in 1..Len(toolResults) : toolResults[k].name = name
Get(toolResults, name) ==
  toolResults[CHOOSE k \in 1..Len(toolResults) : toolResults[k].name = name].result
\* toolResults[name] = result
Put(toolResults, name, result) ==
  IF Has(toolResults, name)
  THEN [k \in 1..Len(toolResults) |->
          IF toolResults[k].name = name
          THEN [name |-> name, result |-> result] ELSE toolResults[k]]
  ELSE Append(toolResults, [name |-> name, result |-> result])

\* `${result.field}`: <<value>>, or <<>> where the field is undefined
Prop(result, field) ==
  IF field \in DOMAIN result THEN <<result[field]>> ELSE <<>>

\* the entry the tool loop stores when the tool throws
FailedToExecute(toolName) == [error |-> <<"Failed to execute ", toolName>>]

(* --------------------------- the response text ------------------------- *)
Null == [null |-> TRUE]

RedirectReply == [kind |-> "redirect", sections |-> <<>>]
ApologyReply == [kind |-> "apology", sections |-> <<>>]
CompletionReply == [kind |-> "completion", sections |-> <<>>]
GenericReply == [kind |-> "generic", sections |-> <<>>]

(* --------------------------- number formatting ------------------------- *)
\* Bounds, in hundredths, on the size of the unrounded monthlyPayment. The
\* amortized payment of a loan L at monthly rate r over n months is
\* L * r / (1 - (1 + r)^-n), between L * max(r, 1/n) and L * (r + 1/n);
\* r is interestRate / 120000 on hundredths of a percent. The upper bound
\* is used for loans below 36,000,000 only.
Max(a, b) == IF a >= b THEN a ELSE b
Min(a, b) == IF a <= b THEN a ELSE b

PaymentAtLeast(payment) ==
  LET L == Abs(payment.loanAmount)
      rate == payment.interestRate
  IN  IF payment.formula = "linear" THEN L \div 360
      ELSE IF rate >= 120000 THEN L
      ELSE Max((L \div 120000) * rate, L \div 360)

PaymentAtMost(payment) ==
  LET L == Abs(payment.loanAmount)
      rate == payment.interestRate
  IN  IF payment.formula = "linear" THEN L \div 360 + 1
      ELSE IF rate < 70000
           THEN ((L \div 1200 + 1) * rate) \div 100 + L \div 360 + 2
           ELSE ((L \div 120000) + 1) * rate + L \div 360 + 1

\* whether a rounded amount between least and most in size has four or
\* more digits before the point: "yes", "no", or "either" where the bounds
\* leave it open
Separators(least, most) ==
  IF least >= 100000 THEN "yes"
  ELSE IF most + 1 < 100000 THEN "no"
  ELSE "either"

\* n.toLocaleString() of an amount in hundredths, en-US: groups of three
\* digits separated by commas from 1,000 on
toLocaleString(n) ==
  [number |-> n,
   separators |-> Separators(Abs(n), Abs(n)),
   minus |-> IF n < 0 THEN "yes" ELSE "no"]

\* calc.monthlyPayment.toLocaleString(): "NaN" for NaN, a minus sign for a
\* payment below 0 and for -0
PaymentToLocaleString(payment) ==
  [number |-> payment,
   separators |->
     IF IsNaN(payment) THEN "no"
     ELSE IF Abs(payment.loanAmount) >= 36000000
          THEN Separators(PaymentAtLeast(payment), PaymentAtLeast(payment) + 100000)
          ELSE Separators(PaymentAtLeast(payment), PaymentAtMost(payment)),
   minus |-> IF ~IsNaN(payment) /\ payment.loanAmount < 0 THEN "yes" ELSE "no"]

\* calc.totalInterest.toLocaleString(): the interest is 360 payments less
\* the loan, with the sign of the loan
InterestToLocaleString(interest) ==
  LET payment == interest.monthlyPayment
      L == Abs(payment.loanAmount)
      least == 360 * Min(PaymentAtLeast(payment), 3000000) - L
  IN  [number |-> interest,
       separators |->
         IF IsNaN(payment) THEN "no"
         ELSE IF L >= 36000000 \/ PaymentAtMost(payment) > 1000000
              THEN Separators(least, least + 100000)
              ELSE Separators(least, 360 * PaymentAtMost(payment) - L),
       minus |-> IF ~IsNaN(payment) /\ payment.loanAmount < 0 THEN "yes" ELSE "no"]

\* generateAIResponse, catch block: the reply built from toolResults
FallbackResponse(toolResults) ==
  IF Len(toolResults) > 0
  THEN [kind |-> "template",
        sections |->
          (IF Has(toolResults, "calculateMortgage")
              /\ ~HasError(Get(toolResults, "calculateMortgage"))
           THEN LET calc == Get(toolResults, "calculateMortgage")
                IN  <<[section |-> "mortgage",
                       propertyPrice |-> toLocaleString(calc.propertyPrice),
                       downPayment |-> toLocaleString(calc.downPayment),
                       monthlyPayment |-> PaymentToLocaleString(calc.monthlyPayment),
                       totalInterest |-> InterestToLocaleString(calc.totalInterest)]>>
           ELSE <<>>)
          \o (IF Has(toolResults, "searchPropertyInfo")
              THEN <<[section |-> "properties",
                      totalResults |->
                        Prop(Get(toolResults, "searchPropertyInfo"), "totalResults")]>>
              ELSE <<>>)
          \o (IF Has(toolResults, "getInterestRates")
              THEN <<[section |-> "rates",
                      currentRate |->
                        Prop(Get(toolResults, "getInterestRates"), "currentRate")]>>
              ELSE <<>>)]
  ELSE GenericReply

\* extractPropertyData that leaves out the entries with an error field
extractPropertyData_SkipErrors(toolResults) ==
  LET from == [searchResults |-> "searchPropertyInfo",
               propertyDetails |-> "getPropertyDetails",
               mortgageCalculation |-> "calculateMortgage"]
      keys == {k \in DOMAIN from :
                 Has(toolResults, from[k]) /\ ~HasError(Get(toolResults, from[k]))}
  IN  IF keys # {}
      THEN [k \in keys |-> Get(toolResults, from[k])]
      ELSE Null

\* extractPropertyData(toolResults)
extractPropertyData(toolResults) ==
  LET from == [searchResults |-> "searchPropertyInfo",
               propertyDetails |-> "getPropertyDetails",
               mortgageCalculation |-> "calculateMortgage"]
      keys == {k \in DOMAIN from : Has(toolResults, from[k])}
  IN  IF keys # {}
      THEN [k \in keys |-> Get(toolResults, from[k])]
      ELSE Null

(* ------------------------------ the inputs ----------------------------- *)
Phrases ==
  { <<"h","e","l","l","o">>,
     <<"f","i","n","d">>,
     <<"m","o","r","t","g","a","g","e">>,
     <<"r","a","t","e","s">>,
     <<"R","O","I">>,
     <<"d","e","t","a","i","l","s">>,
     <<"h","o","u","s","e","s">>,
     <<"h","o","m","e">>,
     <<"$","4","5","0",",","0","0","0"," ","w","i","t","h"," ","$","9","0",",","0","0","0"," ","d","o","w","n">>,
     <<"0">>,
     <<"6",".","5">>,
     <<"1",",","0","0","0"," ","f","o","r"," ","2",",","5","0","0">>,
     <<"c","a","p"," ","r","a","t","e"," ","o","n"," ","2","0","0"," ","a","n","d"," ","1","0">> }

RECURSIVE Join(_)
Join(phrases) ==
  IF Len(phrases) = 1 THEN phrases[1]
  ELSE phrases[1] \o <<" ">> \o Join(Tail(phrases))

\* message texts: up to MaxPhrases phrases separated by one space
Texts == {Join(ps) : ps \in UNION {[1..n -> Phrases] : n \in 1..MaxPhrases}}

\* the message field of a payload: a string, a number, or missing
StringMessage(text) == [kind |-> "string", text |-> text]
NumberMessage == [kind |-> "number", text |-> <<>>]
NoMessage == [kind |-> "undefined", text |-> <<>>]

Sessions == {"s1", "s2"}
Sockets == 1..NumSockets
Tasks == 1..MaxTasks
\* the caller of a processMessage call made without a socket
Direct == 0

\* arguments of a direct processMessage call
CallInputs ==
  [message : {StringMessage(x) : x \in Texts} \cup {NumberMessage, NoMessage},
   sessionId : Sessions]

\* arguments of processMessage calls that run concurrently
PairTexts ==
  { <<"h","e","l","l","o">>,
    <<"m","o","r","t","g","a","g","e">>,
    <<"m","o","r","t","g","a","g","e"," ","$","4","5","0",",","0","0","0"," ","w","i","t","h"," ","$","9","0",",","0","0","0"," ","d","o","w","n">> }
PairInputs ==
  [message : {StringMessage(x) : x \in PairTexts} \cup {NumberMessage},
   sessionId : Sessions]

\* chat_message payloads: null, or an object with message and sessionId
NullData == [isNull |-> TRUE, message |-> NoMessage, sessionId |-> "s1"]
SocketTexts == {<<"h","e","l","l","o">>, <<"m","o","r","t","g","a","g","e">>}
Payloads ==
  {NullData} \cup
  [isNull : {FALSE},
   message : {StringMessage(x) : x \in SocketTexts} \cup {NumberMessage, NoMessage},
   sessionId : Sessions]

\* socket.id
SocketId(s) == "id" \o ToString(s)

\* payloads whose sessionId is a session or the id of socket 1
RoutePayloads ==
  [isNull : {FALSE},
   message : {StringMessage(x) : x \in SocketTexts},
   sessionId : {"s1", SocketId(1)}]

\* the payloads sent for session "s1": null, a greeting, a mortgage question
AiPayloads ==
  {NullData} \cup
  [isNull : {FALSE},
   message : {StringMessage(x) : x \in SocketTexts},
   sessionId : {"s1"}]

(* ------------------------------- the state ----------------------------- *)
VARIABLES
  variant,   \* which server runs: "aiService" (io.to) or "server" (socket.to + socket.emit)
  status,    \* per socket: "new", "connected" or "disconnected"
  rooms,     \* per socket: the session rooms it has joined
  inbox,     \* per socket: the events emitted to it
  tasks,     \* per processMessage call: its frame (locals, position, calls made)
  nTasks,    \* calls started so far
  input,     \* argument of a helper applied on its own
  output     \* result of that helper

vars == <<variant, status, rooms, inbox, tasks, nTasks, input, output>>

IdleTask ==
  [pc |-> "idle", socket |-> Direct, data |-> NullData,
   toolsToUse |-> <<>>, i |-> 0, toolResults |-> <<>>,
   invoked |-> <<>>, llmCalls |-> 0, faults |-> 0, request |-> <<>>,
   response |-> <<>>]

\* per event name and task: the copies a socket has received
EmptyBox ==
  [name \in {"ai_response", "error"} |-> [t \in Tasks |-> 0]]

NoOutput == [fn |-> "none", value |-> <<>>]

(* ------------------------ the completion request ----------------------- *)
\* JSON.stringify of a number: null for NaN and for Infinity
JsonPayment(amount, payment) == IF IsNaN(payment) THEN Null ELSE amount
JsonRatio(ratio) == IF ratio.den = 0 THEN Null ELSE ratio

\* JSON.stringify(result, null, 2): the fields of the result in their
\* order, strings and finite numbers as they are
stringify(result) ==
  IF "monthlyPayment" \in DOMAIN result
  THEN [result EXCEPT
          !.monthlyPayment = JsonPayment(@, result.monthlyPayment),
          !.totalCost = JsonPayment(@, result.monthlyPayment),
          !.totalInterest = JsonPayment(@, result.monthlyPayment)]
  ELSE IF "roiPercentage" \in DOMAIN result
  THEN [result EXCEPT !.roiPercentage = JsonRatio(@)]
  ELSE IF "capRatePercentage" \in DOMAIN result
  THEN [result EXCEPT !.capRatePercentage = JsonRatio(@)]
  ELSE result

\* a context block with every entry of toolResults, error records included
RECURSIVE toolContext_WithErrors(_)
toolContext_WithErrors(toolResults) ==
  IF toolResults = <<>> THEN <<>>
  ELSE <<[toolName |-> Head(toolResults).name,
          json |-> stringify(Head(toolResults).result)]>>
       \o toolContext_WithErrors(Tail(toolResults))

\* the lines added to toolContext by the loop over Object.entries: one
\* per result without an error field
RECURSIVE toolContext(_)
toolContext(toolResults) ==
  IF toolResults = <<>> THEN <<>>
  ELSE (IF ~HasError(Head(toolResults).result)
        THEN <<[toolName |-> Head(toolResults).name,
                json |-> stringify(Head(toolResults).result)]>>
        ELSE <<>>)
       \o toolContext(Tail(toolResults))

\* the messages of the completion request
messages(message, toolResults) ==
  <<[role |-> "system", content |-> "instruction"],
    [role |-> "user", content |-> message]>>
  \o (IF Len(toolResults) > 0
      THEN <<[role |-> "system",
              content |-> [header |-> "Available data from tools:",
                           entries |-> toolContext(toolResults)]]>>
      ELSE <<>>)

(* ---------------------------- processMessage --------------------------- *)
\* a return statement of processMessage: the response record
Respond(task, reply, toolsUsed, propertyData) ==
  [task EXCEPT
     !.pc = "returned",
     !.response = <<[response |-> reply,
                     sessionId |-> task.data.sessionId,
                     timestamp |-> "now",
                     toolsUsed |-> toolsUsed,
                     propertyData |-> propertyData,
                     executionTime |-> "elapsed"]>>]

\* a catch block that rethrows
Catch_Rethrow(task) == [task EXCEPT !.pc = "raised"]

\* the catch block of processMessage
Catch(task) == Respond(task, ApologyReply, <<>>, Null)

\* processMessage up to its first await: the log line reads message.length,
\* then validatePromptRelevance is called
Begin(task) ==
  IF task.data.message.kind = "undefined"
  THEN Catch(task)
  ELSE [task EXCEPT !.pc = "gate",
                    !.invoked = Append(@, "validatePromptRelevance")]

\* the tool loop from position i up to its next await: call the next tool
\* the registry knows, or leave the loop and call the completion endpoint
RECURSIVE ToolLoop(_, _)
ToolLoop(task, i) ==
  IF i > Len(task.toolsToUse)
  THEN [task EXCEPT !.pc = "llm", !.i = i, !.llmCalls = @ + 1,
                    !.request = messages(task.data.message.text,
                                         task.toolResults)]
  ELSE IF \E k \in 1..Len(mcpTools) : mcpTools[k] = task.toolsToUse[i]
       THEN [task EXCEPT !.pc = "tool", !.i = i,
                         !.invoked = Append(@, task.toolsToUse[i])]
       ELSE ToolLoop(task, i + 1)

\* after await validatePromptRelevance: toLowerCase of a non-string has thrown
AfterGate(task) ==
  IF task.data.message.kind # "string"
  THEN Catch(task)
  ELSE LET message == task.data.message.text
           isRelevant == validatePromptRelevance(message)
       IN  IF ~isRelevant.isValid
           THEN Respond(task, RedirectReply, <<"validatePromptRelevance">>, Null)
           ELSE LET loop[toolsToUse \in {determineRequiredTools(message)}] ==
                      ToolLoop([task EXCEPT !.toolsToUse = toolsToUse,
                                            !.toolResults = <<>>], 1)
                IN  loop[determineRequiredTools(message)]

\* a tool loop without its try/catch: a tool that throws ends the loop in the
\* catch block of processMessage
AfterTool_AbortOnThrow(task, threw) ==
  LET toolName == task.toolsToUse[task.i]
  IN  IF threw
      THEN Catch([task EXCEPT !.faults = @ + 1])
      ELSE ToolLoop([task EXCEPT
                       !.toolResults =
                          Put(@, toolName, InvokeTool(toolName, task.data.message.text))],
                    task.i + 1)

\* a tool loop that also replaces a returned failure record by the generic one
AfterTool_WrapReturnedError(task, threw) ==
  LET toolName == task.toolsToUse[task.i]
      returned == InvokeTool(toolName, task.data.message.text)
      result == IF threw \/ HasError(returned)
                THEN FailedToExecute(toolName) ELSE returned
  IN  ToolLoop([task EXCEPT
                  !.toolResults = Put(@, toolName, result),
                  !.faults = IF threw THEN @ + 1 ELSE @], task.i + 1)

\* a tool loop that passes the tools the message of the latest call, as if
\* the message were kept in a field of the service
AfterTool_SharedMessage(task, threw) ==
  LET toolName == task.toolsToUse[task.i]
      result == IF threw THEN FailedToExecute(toolName)
                ELSE InvokeTool(toolName, tasks[nTasks].data.message.text)
  IN  ToolLoop([task EXCEPT
                  !.toolResults = Put(@, toolName, result),
                  !.faults = IF threw THEN @ + 1 ELSE @], task.i + 1)

\* after await this.mcpTools[toolName](...): store the result, or the
\* generic record when the call threw
AfterTool(task, threw) ==
  LET toolName == task.toolsToUse[task.i]
      result == IF threw THEN FailedToExecute(toolName)
                ELSE InvokeTool(toolName, task.data.message.text)
  IN  ToolLoop([task EXCEPT
                  !.toolResults = Put(@, toolName, result),
                  !.faults = IF threw THEN @ + 1 ELSE @], task.i + 1)

\* after await this.openai.chat.completions.create: the completion text, or
\* the fallback when the call failed; then the return of processMessage
AfterCompletion(task, ok) ==
  LET aiResponse == IF ok THEN CompletionReply
                    ELSE FallbackResponse(task.toolResults)
  IN  Respond(task, aiResponse,
              <<"validatePromptRelevance">> \o task.toolsToUse,
              extractPropertyData(task.toolResults))

(* ------------------------------- transport ----------------------------- *)
\* the second server emitting with io.to(sessionId) and then socket.emit
Copies_IoToThenSender(sender, sessionId) ==
  [s \in Sockets |->
     IF variant = "aiService"
     THEN IF sessionId \in rooms[s] THEN 1 ELSE 0
     ELSE (IF sessionId \in rooms[s] THEN 1 ELSE 0)
          + (IF s = sender /\ status[s] = "connected" THEN 1 ELSE 0)]

\* a server that sends the reply to the rooms the sender is in
Copies_BySenderRooms(sender, sessionId) ==
  [s \in Sockets |->
     IF rooms[s] \cap rooms[sender] # {} THEN 1 ELSE 0]

\* copies of ai_response each socket gets when the handler of a message from
\* sender for sessionId emits
Copies(sender, sessionId) ==
  [s \in Sockets |->
     IF variant = "aiService"
     THEN \* io.to(sessionId).emit
          IF sessionId \in rooms[s] THEN 1 ELSE 0
     ELSE \* socket.to(sessionId).emit, then socket.emit
          (IF s # sender /\ sessionId \in rooms[s] THEN 1 ELSE 0)
          + (IF s = sender /\ status[s] = "connected" THEN 1 ELSE 0)]

\* the catch of the handler emitting the error event with io.emit
ErrorCopies_ToAll(sender) ==
  [s \in Sockets |-> IF status[s] = "connected" THEN 1 ELSE 0]

\* socket.emit('error', ...) in the handler's catch
ErrorCopies(sender) ==
  [s \in Sockets |-> IF s = sender /\ status[s] = "connected" THEN 1 ELSE 0]

\* the inbox after n more copies of the event name of task t
Deliver(box, name, t, n) ==
  [box EXCEPT ![name][t] = @ + n]

\* a handler that sends the error event to the sender after its ai_response
Settle_ErrorAfterResponse(t, frame) ==
  IF frame.socket = Direct \/ frame.pc \notin {"returned", "raised"}
  THEN /\ tasks' = [tasks EXCEPT ![t] = frame]
       /\ UNCHANGED inbox
  ELSE IF frame.pc = "returned"
  THEN /\ tasks' = [tasks EXCEPT ![t] = [frame EXCEPT !.pc = "emitted"]]
       /\ inbox' = [s \in Sockets |->
                      Deliver(Deliver(inbox[s], "ai_response", t,
                                      Copies(frame.socket, frame.data.sessionId)[s]),
                              "error", t, ErrorCopies(frame.socket)[s])]
  ELSE /\ tasks' = [tasks EXCEPT ![t] = [frame EXCEPT !.pc = "errored"]]
       /\ inbox' = [s \in Sockets |->
                      Deliver(inbox[s], "error", t, ErrorCopies(frame.socket)[s])]

\* call of task t has settled into frame: emit ai_response, or the error
\* event when the call raised. A direct call has no handler.
Settle(t, frame) ==
  IF frame.socket = Direct \/ frame.pc \notin {"returned", "raised"}
  THEN /\ tasks' = [tasks EXCEPT ![t] = frame]
       /\ UNCHANGED inbox
  ELSE IF frame.pc = "returned"
  THEN /\ tasks' = [tasks EXCEPT ![t] = [frame EXCEPT !.pc = "emitted"]]
       /\ inbox' = [s \in Sockets |->
                      Deliver(inbox[s], "ai_response", t,
                              Copies(frame.socket, frame.data.sessionId)[s])]
  ELSE /\ tasks' = [tasks EXCEPT ![t] = [frame EXCEPT !.pc = "errored"]]
       /\ inbox' = [s \in Sockets |->
                      Deliver(inbox[s], "error", t, ErrorCopies(frame.socket)[s])]

(* -------------------------------- actions ------------------------------ *)
\* io.on('connection'): the socket is in the room named by its own id
connection(s) ==
  /\ status[s] = "new"
  /\ status' = [status EXCEPT ![s] = "connected"]
  /\ rooms' = [rooms EXCEPT ![s] = {SocketId(s)}]
  /\ UNCHANGED <<variant, inbox, tasks, nTasks, input, output>>

\* socket.on('join_session')
join_session(s, sessionId) ==
  /\ status[s] = "connected"
  /\ rooms' = [rooms EXCEPT ![s] = @ \cup {sessionId}]
  /\ UNCHANGED <<variant, status, inbox, tasks, nTasks, input, output>>

\* socket.on('disconnect'): the socket has left all its rooms
disconnect(s) ==
  /\ status[s] = "connected"
  /\ status' = [status EXCEPT ![s] = "disconnected"]
  /\ rooms' = [rooms EXCEPT ![s] = {}]
  /\ UNCHANGED <<variant, inbox, tasks, nTasks, input, output>>

\* socket.on('chat_message'), up to the first await of processMessage
chat_message(s, data) ==
  /\ status[s] = "connected"
  /\ nTasks < MaxTasks
  /\ LET t == nTasks + 1
         frame == [IdleTask EXCEPT !.socket = s, !.data = data]
     IN  IF \/ data.isNull
            \/ variant = "aiService" /\ data.message.kind = "undefined"
         THEN \* the destructuring or message.length throws: catch
              Settle(t, [frame EXCEPT !.pc = "raised"])
         ELSE Settle(t, Begin(frame))
  /\ nTasks' = nTasks + 1
  /\ UNCHANGED <<variant, status, rooms, input, output>>

\* a processMessage call made directly
Call(in) ==
  /\ nTasks = 0
  /\ tasks' = [tasks EXCEPT ![1] =
                 Begin([IdleTask EXCEPT
                          !.data = [isNull |-> FALSE, message |-> in.message,
                                    sessionId |-> in.sessionId]])]
  /\ nTasks' = 1
  /\ UNCHANGED <<variant, status, rooms, inbox, input, output>>

\* a further processMessage call, made while earlier ones are at an await
CallNext(in) ==
  /\ nTasks < MaxTasks
  /\ tasks' = [tasks EXCEPT ![nTasks + 1] =
                 Begin([IdleTask EXCEPT
                          !.data = [isNull |-> FALSE, message |-> in.message,
                                    sessionId |-> in.sessionId]])]
  /\ nTasks' = nTasks + 1
  /\ UNCHANGED <<variant, status, rooms, inbox, input, output>>

ResumeGate(t) ==
  /\ tasks[t].pc = "gate"
  /\ \E frame \in {AfterGate(tasks[t])} : Settle(t, frame)
  /\ UNCHANGED <<variant, status, rooms, nTasks, input, output>>

ResumeTool(t) ==
  /\ tasks[t].pc = "tool"
  /\ \E threw \in BOOLEAN :
       /\ threw => tasks[t].faults < MaxFaults
       /\ \E frame \in {AfterTool(tasks[t], threw)} : Settle(t, frame)
  /\ UNCHANGED <<variant, status, rooms, nTasks, input, output>>

\* a server that answers the messages one at a time: the completion of a
\* message is awaited only once every earlier message has had its event
Completion_InArrivalOrder(t) ==
  /\ tasks[t].pc = "llm"
  /\ \A u \in 1..(t - 1) : tasks[u].pc \in {"emitted", "errored"}
  /\ \E ok \in BOOLEAN :
       \E frame \in {AfterCompletion(tasks[t], ok)} : Settle(t, frame)
  /\ UNCHANGED <<variant, status, rooms, nTasks, input, output>>

\* the completion endpoint answers or fails
Completion(t) ==
  /\ tasks[t].pc = "llm"
  /\ \E ok \in BOOLEAN :
       \E frame \in {AfterCompletion(tasks[t], ok)} : Settle(t, frame)
  /\ UNCHANGED <<variant, status, rooms, nTasks, input, output>>

\* determineRequiredTools applied to a text
Classify ==
  /\ output = NoOutput
  /\ output' = [fn |-> "determineRequiredTools",
                value |-> determineRequiredTools(input)]
  /\ UNCHANGED <<variant, status, rooms, inbox, tasks, nTasks, input>>

\* extractNumbers applied to a text
ExtractNumbers ==
  /\ output = NoOutput
  /\ output' = [fn |-> "extractNumbers", value |-> extractNumbers(input)]
  /\ UNCHANGED <<variant, status, rooms, inbox, tasks, nTasks, input>>

\* the mortgage tool applied to a text
CalculateMortgage ==
  /\ output = NoOutput
  /\ output' = [fn |-> "calculateMortgage", value |-> calculateMortgage(input)]
  /\ UNCHANGED <<variant, status, rooms, inbox, tasks, nTasks, input>>

\* the advanced mortgage tool applied to a text
CalculateMortgageAdvanced ==
  /\ output = NoOutput
  /\ output' = [fn |-> "calculateMortgageAdvanced",
                value |-> calculateMortgageAdvanced(input)]
  /\ UNCHANGED <<variant, status, rooms, inbox, tasks, nTasks, input>>

\* the financial calculator applied to a text
GetFinancialCalculator ==
  /\ output = NoOutput
  /\ output' = [fn |-> "getFinancialCalculator",
                value |-> getFinancialCalculator(input)]
  /\ UNCHANGED <<variant, status, rooms, inbox, tasks, nTasks, input>>

(* ---------------------------- specifications --------------------------- *)
Quiet ==
  /\ status = [s \in Sockets |-> "new"]
  /\ rooms = [s \in Sockets |-> {}]
  /\ inbox = [s \in Sockets |-> EmptyBox]
  /\ tasks = [t \in Tasks |-> IdleTask]
  /\ nTasks = 0
  /\ output = NoOutput

\* the server with its sockets
Init ==
  /\ Quiet
  /\ variant \in {"aiService", "server"}
  /\ input = <<>>

Next ==
  \/ \E s \in Sockets : connection(s)
  \/ \E s \in Sockets, sessionId \in Sessions : join_session(s, sessionId)
  \/ \E s \in Sockets : disconnect(s)
  \/ \E s \in Sockets, data \in Payloads : chat_message(s, data)
  \/ \E t \in Tasks : ResumeGate(t)
  \/ \E t \in Tasks : ResumeTool(t)
  \/ \E t \in Tasks : Completion(t)

Spec == Init /\ [][Next]_vars

\* the io.to(sessionId) server with one session
InitAi ==
  /\ Quiet
  /\ variant = "aiService"
  /\ input = <<>>

NextAi ==
  \/ \E s \in Sockets : connection(s)
  \/ \E s \in Sockets : join_session(s, "s1")
  \/ \E s \in Sockets : disconnect(s)
  \/ \E s \in Sockets, data \in AiPayloads : chat_message(s, data)
  \/ \E t \in Tasks : ResumeGate(t)
  \/ \E t \in Tasks : ResumeTool(t)
  \/ \E t \in Tasks : Completion(t)

SpecAi == InitAi /\ [][NextAi]_vars

\* the io.to(sessionId) server with payloads that name a session or a socket
NextRoute ==
  \/ \E s \in Sockets : connection(s)
  \/ \E s \in Sockets : join_session(s, "s1")
  \/ \E s \in Sockets : disconnect(s)
  \/ \E s \in Sockets, data \in RoutePayloads : chat_message(s, data)
  \/ \E t \in Tasks : ResumeGate(t)
  \/ \E t \in Tasks : ResumeTool(t)
  \/ \E t \in Tasks : Completion(t)

SpecRoute == InitAi /\ [][NextRoute]_vars

\* that server when the event loop runs every continuation that is ready
\* and every completion call is answered, with a reply or a failure
SpecAiFair ==
  /\ SpecAi
  /\ \A t \in Tasks : WF_vars(ResumeGate(t))
  /\ \A t \in Tasks : WF_vars(ResumeTool(t))
  /\ \A t \in Tasks : WF_vars(Completion(t))

\* one direct processMessage call
InitCall ==
  /\ Quiet
  /\ variant = "aiService"
  /\ input = <<>>

NextCall ==
  \/ \E in \in CallInputs : Call(in)
  \/ \E t \in Tasks : ResumeGate(t)
  \/ \E t \in Tasks : ResumeTool(t)
  \/ \E t \in Tasks : Completion(t)

SpecCall == InitCall /\ [][NextCall]_vars

\* processMessage calls interleaved at their awaits
NextPair ==
  \/ \E in \in PairInputs : CallNext(in)
  \/ \E t \in Tasks : ResumeGate(t)
  \/ \E t \in Tasks : ResumeTool(t)
  \/ \E t \in Tasks : Completion(t)

SpecPair == InitCall /\ [][NextPair]_vars

\* the classifier on its own
InitFn ==
  /\ Quiet
  /\ variant = "aiService"
  /\ input \in Texts

NextFn ==
  \/ Classify
  \/ ExtractNumbers
  \/ CalculateMortgage
  \/ CalculateMortgageAdvanced
  \/ GetFinancialCalculator

SpecFn == InitFn /\ [][NextFn]_vars

(* ================================ claims =============================== *)
GateName == "validatePromptRelevance"

IsString(task) == task.data.message.kind = "string"
Text(task) == task.data.message.text
Started(task) == task.pc # "idle"
Returned(task) == task.pc = "returned"
Record(task) == task.response[1]

\* no keyword of the gate's list occurs in the lowercased text
NoGateKeyword(text) ==
  \A k \in 1..Len(propertyKeywords) :
     ~includes(toLowerCase(text), propertyKeywords[k])

\* C1: a string message with no relevance-gate keyword gets the fixed
\* redirect text, toolsUsed = [validatePromptRelevance] and propertyData
\* null; on that path only the gate is ever called: no registry tool and no
\* completion request.
C1_GateRejects ==
  \A t \in Tasks :
     LET task == tasks[t]
     IN  (Started(task) /\ IsString(task) /\ NoGateKeyword(Text(task))) =>
           /\ task.invoked = <<GateName>>
           /\ task.llmCalls = 0
           /\ task.toolResults = <<>>
           /\ Returned(task) =>
                /\ Record(task).response = RedirectReply
                /\ Record(task).toolsUsed = <<GateName>>
                /\ Record(task).propertyData = Null

\* C1 witness: a rejected message that holds a classifier keyword ("find",
\* "rates", "details") has returned.
C1_Witness ==
  \E t \in Tasks :
     /\ Returned(tasks[t]) /\ IsString(tasks[t])
     /\ NoGateKeyword(Text(tasks[t]))
     /\ Len(determineRequiredTools(Text(tasks[t]))) >= 2

ResponseFields ==
  {"response", "sessionId", "timestamp", "toolsUsed", "propertyData", "executionTime"}

C3_GateFirstAlways ==
  \A t \in Tasks :
     Returned(tasks[t]) =>
       /\ Record(tasks[t]).toolsUsed # <<>>
       /\ Head(Record(tasks[t]).toolsUsed) = GateName

\* a string message the gate lets through
Accepted(task) == IsString(task) /\ ~NoGateKeyword(Text(task))

\* the generic record of a tool that threw
IsGeneric(entry) == entry.result = FailedToExecute(entry.name)

\* C4: for an accepted message every tool the classifier selects is called
\* exactly once, in classifier order, also after an earlier one threw: at
\* the await of the i-th tool the calls made are the gate and the first i
\* selected tools and the results hold the first i-1 of them; once the loop
\* has ended the calls and the result keys are exactly the selected tools.
C4_AllToolsRun ==
  \A t \in Tasks :
     LET task == tasks[t]
         selected == determineRequiredTools(Text(task))
     IN  (Accepted(task) /\ task.pc \in {"tool", "llm", "returned"}) =>
           /\ task.toolsToUse = selected
           /\ task.pc = "tool" =>
                /\ task.i \in 1..Len(selected)
                /\ task.invoked = <<GateName>> \o SubSeq(selected, 1, task.i)
                /\ Keys(task.toolResults) = SubSeq(selected, 1, task.i - 1)
           /\ task.pc \in {"llm", "returned"} =>
                /\ task.invoked = <<GateName>> \o selected
                /\ Keys(task.toolResults) = selected

\* C4 witness: the loop has ended with two results of which the first is
\* the generic record of a tool that threw.
C4_Witness ==
  \E t \in Tasks :
     /\ tasks[t].pc = "llm"
     /\ Len(tasks[t].toolResults) >= 2
     /\ IsGeneric(tasks[t].toolResults[1])
     /\ ~HasError(tasks[t].toolResults[2].result)

\* C5 as claimed: every stored entry that has an error field is the generic
\* record {error: "Failed to execute <name>"}.
C5_EveryFailureGeneric ==
  \A t \in Tasks :
     \A k \in 1..Len(tasks[t].toolResults) :
        HasError(tasks[t].toolResults[k].result) =>
          IsGeneric(tasks[t].toolResults[k])

\* C5 amended: an entry is the generic record exactly for the tools that
\* threw; every other entry is what the tool returned, unchanged, also when
\* that is a failure record of the tool's own.
C5_ThrownGenericReturnedKept ==
  \A t \in Tasks :
     LET task == tasks[t]
         generic == {k \in 1..Len(task.toolResults) : IsGeneric(task.toolResults[k])}
     IN  /\ Cardinality(generic) = task.faults
         /\ \A k \in 1..Len(task.toolResults) :
               k \notin generic =>
                 task.toolResults[k].result =
                   InvokeTool(task.toolResults[k].name, Text(task))

\* C5 witness: the results hold the generic record of a tool that threw
\* next to calculateMortgage's own failure record.
C5_Witness ==
  \E t \in Tasks :
     /\ Has(tasks[t].toolResults, "calculateMortgage")
     /\ HasError(Get(tasks[t].toolResults, "calculateMortgage"))
     /\ Get(tasks[t].toolResults, "calculateMortgage")
          # FailedToExecute("calculateMortgage")
     /\ \E k \in 1..Len(tasks[t].toolResults) : IsGeneric(tasks[t].toolResults[k])

\* the tools whose stored result has no error field
Succeeded(task) ==
  {task.toolResults[k].name :
     k \in {j \in 1..Len(task.toolResults) : ~HasError(task.toolResults[j].result)}}

SectionTool(section) ==
  CASE section = "mortgage" -> "calculateMortgage"
    [] section = "properties" -> "searchPropertyInfo"
    [] section = "rates" -> "getInterestRates"

\* C6 as claimed: after a failed completion call the reply is the generic
\* message exactly when no selected tool succeeded, and otherwise the
\* template with sections only for tools that succeeded.
C6_FallbackFromSuccesses ==
  \A t \in Tasks :
     LET task == tasks[t]
         reply == Record(task).response
     IN  (Returned(task) /\ reply.kind \in {"generic", "template"}) =>
           /\ reply.kind = "generic" <=> Succeeded(task) = {}
           /\ \A k \in 1..Len(reply.sections) :
                 SectionTool(reply.sections[k].section) \in Succeeded(task)

PropertyKeys ==
  [searchResults |-> "searchPropertyInfo",
   propertyDetails |-> "getPropertyDetails",
   mortgageCalculation |-> "calculateMortgage"]

\* C9: propertyData has only the keys searchResults, propertyDetails and
\* mortgageCalculation, each present exactly when its tool has an entry in
\* the tool results and then equal to that entry, error record or not; it is
\* null when none of the three tools has an entry.
C9_PropertyDataProjection ==
  \A t \in Tasks :
     LET task == tasks[t]
         pd == Record(task).propertyData
         present == {key \in DOMAIN PropertyKeys :
                       \E k \in 1..Len(task.toolResults) :
                          task.toolResults[k].name = PropertyKeys[key]}
     IN  Returned(task) =>
           IF present = {}
           THEN pd = Null
           ELSE /\ DOMAIN pd = present
                /\ \A key \in present :
                      \E k \in 1..Len(task.toolResults) :
                         /\ task.toolResults[k].name = PropertyKeys[key]
                         /\ pd[key] = task.toolResults[k].result

\* C9 witness: a record whose propertyData carries calculateMortgage's error
\* record while getInterestRates, also in the results, has no key.
C9_Witness ==
  \E t \in Tasks :
     /\ Returned(tasks[t])
     /\ Has(tasks[t].toolResults, "getInterestRates")
     /\ DOMAIN Record(tasks[t]).propertyData = {"mortgageCalculation"}
     /\ HasError(Record(tasks[t]).propertyData["mortgageCalculation"])

Classified == output.fn = "determineRequiredTools"

\* position of a name in a list of distinct names, 0 when absent
Position(name, list) == IndexOf(name, list)

\* the names of seq are distinct and appear in the order they have in list
InOrderOf(seq, list) ==
  \A a, b \in 1..Len(seq) :
     a < b => /\ Position(seq[a], list) > 0
              /\ Position(seq[a], list) < Position(seq[b], list)

\* the order of the five tests in determineRequiredTools
ClassifierOrder ==
  << "searchPropertyInfo", "calculateMortgage", "getInterestRates",
     "getFinancialCalculator", "getPropertyDetails" >>

\* the keyword list determineRequiredTools tests for each tool
KeywordsOf ==
  [searchPropertyInfo |-> searchKeywords,
   calculateMortgage |-> mortgageKeywords,
   getInterestRates |-> rateKeywords,
   getFinancialCalculator |-> financialKeywords,
   getPropertyDetails |-> detailsKeywords]

Matches(tool, text) ==
  \E k \in 1..Len(KeywordsOf[tool]) :
     includes(toLowerCase(text), KeywordsOf[tool][k])

\* C7 as claimed: the tools are returned in the order in which their names
\* are declared in the mcpTools registry, without duplicates.
C7_RegistryOrder ==
  Classified => InOrderOf(output.value, mcpTools)

\* C7 amended: every matching tool is returned, none dropped in favour of
\* another, without duplicates and in the order of the classifier's own
\* tests: searchPropertyInfo, calculateMortgage, getInterestRates,
\* getFinancialCalculator, getPropertyDetails.
C7_ClassifierOrder ==
  Classified =>
    /\ InOrderOf(output.value, ClassifierOrder)
    /\ \A tool \in DOMAIN KeywordsOf :
          Matches(tool, input) => \E k \in 1..Len(output.value) : output.value[k] = tool

\* C7 witness: calculateMortgage is returned before getInterestRates, which
\* the registry declares first.
C7_Witness ==
  /\ Classified
  /\ output.value = <<"calculateMortgage", "getInterestRates">>

\* C8: a tool is in the result exactly when one of its own keywords is a
\* substring of the lowercased message, whatever the other tools match.
C8_KeywordIff ==
  Classified =>
    \A tool \in DOMAIN KeywordsOf :
       (\E k \in 1..Len(output.value) : output.value[k] = tool)
         <=> Matches(tool, input)

\* C8 witness: a message in capitals ("ROI") and a second phrase have
\* selected two tools.
C8_Witness ==
  /\ Classified
  /\ input # toLowerCase(input)
  /\ Len(output.value) >= 2

\* C10: when a chat_message handler emits its ai_response, every socket that
\* is in the room of the message's sessionId at that moment gets exactly one
\* copy and no socket gets more than one, under either server; after the
\* emit no socket ever gets a further copy of that reply.
C10_DeliveredOnceAtEmit ==
  [][\A t \in Tasks :
       /\ (tasks[t].pc # "emitted" /\ tasks'[t].pc = "emitted") =>
            \A s \in Sockets :
               /\ inbox'[s]["ai_response"][t] <= 1
               /\ tasks'[t].data.sessionId \in rooms[s] =>
                    inbox'[s]["ai_response"][t] = 1
       /\ tasks[t].pc = "emitted" =>
            \A s \in Sockets :
               inbox'[s]["ai_response"][t] = inbox[s]["ai_response"][t]
       /\ tasks[t].pc # "emitted" =>
            \A s \in Sockets : inbox[s]["ai_response"][t] = 0]_vars

\* C10 witness: under socket.to + socket.emit a reply has reached the sender
\* and another member of the room once each, and a socket that had left by
\* disconnecting has none.
C10_Witness ==
  \E t \in Tasks :
     \E s1, s2 \in Sockets :
        /\ variant = "server"
        /\ tasks[t].pc = "emitted"
        /\ tasks[t].socket = s1
        /\ s2 # s1
        /\ tasks[t].data.sessionId \in rooms[s1] \cap rooms[s2]
        /\ inbox[s1]["ai_response"][t] = 1
        /\ inbox[s2]["ai_response"][t] = 1

OwnResult(task, name) ==
  {InvokeTool(name, Text(task)), FailedToExecute(name)}

\* C12: whatever calls run in between, a call's selected tools, tool
\* results and returned record are those of its own message: the sessionId
\* is its own, the tools are the classifier's for its text, every result is
\* the tool's on its text, and propertyData and the fallback sections are
\* taken from those results.
C12_CallsIndependent ==
  \A t \in Tasks :
     LET task == tasks[t]
         selected == determineRequiredTools(Text(task))
     IN  /\ (Started(task) /\ ~Accepted(task)) =>
              task.toolsToUse = <<>> /\ task.toolResults = <<>>
         /\ (Accepted(task) /\ task.pc \in {"tool", "llm", "returned"}) =>
              /\ task.toolsToUse = selected
              /\ \A k \in 1..Len(task.toolResults) :
                    task.toolResults[k].result
                      \in OwnResult(task, task.toolResults[k].name)
         /\ Returned(task) =>
              /\ Record(task).sessionId = task.data.sessionId
              /\ Record(task).toolsUsed =
                   (IF ~IsString(task) THEN <<>>
                    ELSE IF ~Accepted(task) THEN <<GateName>>
                    ELSE <<GateName>> \o selected)
              /\ \A key \in DOMAIN PropertyKeys :
                    key \in DOMAIN Record(task).propertyData =>
                      Record(task).propertyData[key]
                        \in OwnResult(task, PropertyKeys[key])
              /\ \A k \in 1..Len(Record(task).response.sections) :
                    LET sec == Record(task).response.sections[k]
                    IN  sec.section = "mortgage" =>
                          /\ sec.propertyPrice.number =
                               calculateMortgage(Text(task)).propertyPrice
                          /\ sec.downPayment.number =
                               calculateMortgage(Text(task)).downPayment

\* C12 witness: two calls with different texts that select the same tool
\* were in flight together (the second call started while the first was at
\* its tool await) and the first has returned its own fallback record.
C12_Witness ==
  /\ nTasks >= 2
  /\ Returned(tasks[1])
  /\ tasks[2].pc = "llm"
  /\ Text(tasks[1]) # Text(tasks[2])
  /\ tasks[1].data.sessionId # tasks[2].data.sessionId
  /\ tasks[1].toolsToUse = <<"calculateMortgage">>
  /\ tasks[2].toolsToUse = <<"calculateMortgage">>
  /\ Record(tasks[1]).response.kind = "template"

\* the quotes the mortgage tool has returned
Quoted ==
  /\ output.fn = "calculateMortgage"
  /\ ~HasError(output.value)

\* C13 as claimed: the third extracted number is the annual rate and 7.2 is
\* used only when there is no third number; with a third number of 0 the
\* rate is 0 and the payment is loanAmount / 360.
C13_ThirdNumberIsRate ==
  Quoted =>
    LET numbers == extractNumbers(input)
    IN  /\ output.value.interestRate =
             (IF Len(numbers) >= 3 THEN numbers[3] ELSE 720)
        /\ (Len(numbers) >= 3 /\ numbers[3] = 0) =>
             /\ output.value.interestRate = 0
             /\ output.value.monthlyPayment.formula = "linear"

\* amount >= 0 as JavaScript evaluates it: false for NaN, true for -0
AtLeastZero(signs) == signs \subseteq {"zero", "positive"}

\* C14 as claimed: every quote without an error field has propertyPrice,
\* downPayment, loanAmount, monthlyPayment, totalCost and totalInterest
\* at least 0, also with a down payment above the price.
C14_MonetaryFieldsNonNegative ==
  Quoted =>
    /\ output.value.propertyPrice >= 0
    /\ output.value.downPayment >= 0
    /\ output.value.loanAmount >= 0
    /\ AtLeastZero(Signs(output.value.monthlyPayment))
    /\ AtLeastZero(Signs(output.value.totalCost.monthlyPayment))
    /\ AtLeastZero(Signs(output.value.totalInterest.monthlyPayment))

\* the advanced quotes returned
AdvancedQuoted ==
  /\ output.fn = "calculateMortgageAdvanced"
  /\ ~HasError(output.value)

\* C15: in an advanced quote monthlyPmi is exactly 0 whenever
\* downPayment / propertyPrice * 100 >= 20 (a price of 0 with a down
\* payment above 0 gives Infinity), and otherwise it is
\* (loanAmount * 0.5%) / 12 rounded to cents, the whole number of cents c
\* with c - 1/2 <= loanAmount / 24 < c + 1/2 (amounts in hundredths:
\* 2400 * c - 1200 <= loanAmount < 2400 * c + 1200).
C15_PmiRule ==
  AdvancedQuoted =>
    LET numbers == extractNumbers(input)
        price == numbers[1]
        down == numbers[2]
        atLeast20 == \/ price > 0 /\ down * 5 >= price
                     \/ price = 0 /\ down > 0
        pmi == output.value.advancedDetails.monthlyPmi
    IN  IF atLeast20 THEN pmi = 0
        ELSE /\ 2400 * pmi - 1200 <= price - down
             /\ price - down < 2400 * pmi + 1200

\* C15 witness: an advanced quote at exactly 20 percent down with no PMI
C15_Witness ==
  /\ AdvancedQuoted
  /\ output.value.propertyPrice > 0
  /\ output.value.downPayment * 5 = output.value.propertyPrice
  /\ output.value.advancedDetails.monthlyPmi = 0

\* some case variant of the word occurs in the text: the word, in lower
\* case, is at some position of the text once its capitals are lowered
Mentions(text, word) ==
  \E k \in 1..(Len(text) - Len(word) + 1) :
     \A j \in 1..Len(word) :
        \/ text[k + j - 1] = word[j]
        \/ /\ IndexOf(text[k + j - 1], UpperCase) > 0
           /\ LowerCase[IndexOf(text[k + j - 1], UpperCase)] = word[j]

Calculated == output.fn = "getFinancialCalculator"

\* C16: getFinancialCalculator returns an ROI record when the lowercased
\* message contains "roi" and at least 2 numbers are extracted, otherwise a
\* cap-rate record when it contains "cap rate" and at least 2 numbers are
\* extracted, otherwise an error record; with both keywords the ROI branch
\* wins. The ROI is annualReturn / initialInvestment (second number over
\* first), the cap rate annualIncome / propertyValue (first over second).
C16_CalculatorDispatch ==
  Calculated =>
    LET numbers == extractNumbers(input)
        roi == Mentions(input, <<"r","o","i">>) /\ Len(numbers) >= 2
        cap == Mentions(input, <<"c","a","p"," ","r","a","t","e">>)
               /\ Len(numbers) >= 2
        value == output.value
    IN  /\ roi =>
             /\ ~HasError(value)
             /\ value.calculationType = "roi"
             /\ value.initialInvestment = numbers[1]
             /\ value.annualReturn = numbers[2]
             /\ value.roiPercentage = [num |-> numbers[2], den |-> numbers[1]]
        /\ (~roi /\ cap) =>
             /\ ~HasError(value)
             /\ value.calculationType = "cap_rate"
             /\ value.annualIncome = numbers[1]
             /\ value.propertyValue = numbers[2]
             /\ value.capRatePercentage = [num |-> numbers[1], den |-> numbers[2]]
        /\ (~roi /\ ~cap) => DOMAIN value = {"error"}

\* C16 witness: a text with both keywords and two numbers got the ROI record
C16_Witness ==
  /\ Calculated
  /\ Mentions(input, <<"r","o","i">>)
  /\ Mentions(input, <<"c","a","p"," ","r","a","t","e">>)
  /\ Len(extractNumbers(input)) >= 2
  /\ ~HasError(output.value)
  /\ output.value.calculationType = "roi"

\* C17: calculateMortgage returns the error record exactly when fewer than
\* 2 numbers can be extracted from the message; with 2 or more it returns
\* a quote with loanAmount = first number - second number and a term of 30
\* years; calculateMortgageAdvanced returns the error record of the basic
\* tool, unchanged, in the same cases and a quote otherwise.
C17_ErrorBelowTwoNumbers ==
  LET numbers == extractNumbers(input)
      value == output.value
      errorRecord ==
        [error |-> <<"Please provide property price and down payment for mortgage calculation">>]
  IN
    /\ output.fn \in {"calculateMortgage", "calculateMortgageAdvanced"} =>
         /\ (Len(numbers) < 2) <=> HasError(value)
         /\ (Len(numbers) < 2) => (value = errorRecord)
         /\ (Len(numbers) >= 2) =>
              /\ value.propertyPrice = numbers[1]
              /\ value.downPayment = numbers[2]
              /\ value.loanAmount = numbers[1] - numbers[2]
              /\ value.loanTermYears = 30
              /\ value.monthlyPayment.numPayments = 360
    /\ output.fn = "calculateMortgageAdvanced" =>
         (HasError(value) <=> HasError(calculateMortgage(input)))

\* C17 witness: the basic tool returned a quote for a text with exactly two
\* numbers, the second above the first
C17_Witness ==
  /\ Quoted
  /\ Len(extractNumbers(input)) = 2
  /\ output.value.loanAmount < 0
  /\ output.value.loanTermYears = 30

\* the words of a text: the pieces between its spaces
RECURSIVE Words(_, _)
Words(text, word) ==
  IF text = <<>> THEN (IF word = <<>> THEN <<>> ELSE <<word>>)
  ELSE IF Head(text) = " "
       THEN (IF word = <<>> THEN <<>> ELSE <<word>>) \o Words(Tail(text), <<>>)
       ELSE Words(Tail(text), Append(word, Head(text)))

NoDigit(word) == \A k \in 1..Len(word) : ~IsDigit(word[k])

\* a word that is written as one number: an optional "$", digits, then
\* groups of a comma and three digits, then at most one "." with digits
Amount(word) == IF word # <<>> /\ Head(word) = "$" THEN Tail(word) ELSE word
Dot(word) == IF IndexOf(".", word) = 0 THEN Len(word) + 1 ELSE IndexOf(".", word)
Whole(word) == SubSeq(word, 1, Dot(word) - 1)
Decimals(word) == SubSeq(word, Dot(word) + 1, Len(word))
WrittenNumber(word) ==
  LET w == Whole(Amount(word))
      d == Decimals(Amount(word))
      commas == {k \in 1..Len(w) : w[k] = ","}
  IN  /\ w # <<>>
      /\ \A k \in 1..Len(w) : IsDigit(w[k]) \/ w[k] = ","
      /\ IsDigit(w[1])
      /\ \A k \in commas :
            /\ k + 3 <= Len(w)
            /\ \A j \in (k + 1)..(k + 3) : IsDigit(w[j])
            /\ (k + 4 <= Len(w)) => (w[k + 4] = ",")
      /\ (Dot(Amount(word)) <= Len(Amount(word))) => (d # <<>>)
      /\ \A k \in 1..Len(d) : IsDigit(d[k])
      /\ Len(d) <= 2

RECURSIVE Pow10(_)
Pow10(n) == IF n = 0 THEN 1 ELSE 10 * Pow10(n - 1)

\* the value of a written number in hundredths: each digit times the
\* power of ten of its place
RECURSIVE PlaceSum(_, _)
PlaceSum(digits, k) ==
  IF k > Len(digits) THEN 0
  ELSE DigitValue(digits[k]) * Pow10(Len(digits) - k) + PlaceSum(digits, k + 1)

WrittenValue(word) ==
  LET w == SelectSeq(Whole(Amount(word)), IsDigit)
      d == Decimals(Amount(word))
  IN  100 * PlaceSum(w, 1) + PlaceSum(d \o SubSeq(<<"0", "0">>, 1, 2 - Len(d)), 1)

RECURSIVE WrittenValues(_)
WrittenValues(words) ==
  IF words = <<>> THEN <<>>
  ELSE (IF NoDigit(Head(words)) THEN <<>> ELSE <<WrittenValue(Head(words))>>)
       \o WrittenValues(Tail(words))

Extracted == output.fn = "extractNumbers"

\* C19: extractNumbers returns the decimal numbers of the text in reading
\* order. A text whose words are each one written number (comma groups and
\* decimals included, "$" in front allowed) or free of digits yields the
\* values of its number words in order, the other words left out; a text
\* without a digit yields the empty sequence, and only such a text does;
\* "$450,000 with $90,000 down" yields [450000, 90000] (in hundredths).
C19_NumbersInReadingOrder ==
  Extracted =>
    LET words == Words(input, <<>>)
    IN  /\ (\A k \in 1..Len(words) :
              NoDigit(words[k]) \/ WrittenNumber(words[k]))
          => (output.value = WrittenValues(words))
        /\ (output.value = <<>>) <=> NoDigit(input)
        /\ (input = <<"$","4","5","0",",","0","0","0"," ","w","i","t","h"," ","$","9","0",",","0","0","0"," ","d","o","w","n">>)
          => (output.value = <<45000000, 9000000>>)

\* C19 witness: a text with a decimal, a comma-grouped number and a word
\* between numbers gave three numbers in reading order
C19_Witness ==
  /\ Extracted
  /\ input = <<"6",".","5"," ","1",",","0","0","0"," ","f","o","r"," ","2",",","5","0","0">>
  /\ output.value = <<650, 100000, 250000>>

\* the figure as computed: the digits of the rounded number with no
\* separators, a minus sign when it is below 0
Verbatim(payment) ==
  [number |-> payment,
   separators |-> "no",
   minus |-> IF IsNaN(payment) \/ payment.loanAmount >= 0 THEN "no"
             ELSE IF RoundsToZero(payment) = {FALSE} THEN "yes"
             ELSE IF RoundsToZero(payment) = {TRUE} THEN "no"
             ELSE "either"]

MortgageSections(reply) ==
  {k \in 1..Len(reply.sections) : reply.sections[k].section = "mortgage"}

\* C18 as claimed: after a failed completion call the fallback reply has a
\* mortgage section exactly when calculateMortgage was selected and its
\* result has no error field, and that section carries the monthlyPayment
\* of the quote verbatim.
C18_MonthlyPaymentVerbatim ==
  \A t \in Tasks :
     LET task == tasks[t]
         reply == Record(task).response
         quoted == /\ Has(task.toolResults, "calculateMortgage")
                   /\ ~HasError(Get(task.toolResults, "calculateMortgage"))
     IN  (Returned(task) /\ reply.kind \in {"generic", "template"}) =>
           /\ (MortgageSections(reply) # {}) <=> quoted
           /\ \A k \in MortgageSections(reply) :
                 reply.sections[k].monthlyPayment =
                   Verbatim(Get(task.toolResults, "calculateMortgage").monthlyPayment)

\* the calls that have sent their completion request
Requested(task) == task.llmCalls > 0

Successes(toolResults) ==
  {k \in 1..Len(toolResults) : ~HasError(toolResults[k].result)}

\* C20: the completion request has the fixed instruction and the user
\* message, and a third, context message exactly when at least one tool
\* was selected. The context block has one entry per tool result without
\* an error field, in the insertion order of the results, each the
\* serialization of that result; no error record is in it, so it has the
\* header only when every selected tool has an error record.
C20_ContextFromNonErrorResults ==
  \A t \in Tasks :
     LET task == tasks[t]
         request == task.request
         results == task.toolResults
     IN  Requested(task) =>
           /\ Len(request) = (IF task.toolsToUse # <<>> THEN 3 ELSE 2)
           /\ request[1].role = "system"
           /\ request[2] = [role |-> "user", content |-> Text(task)]
           /\ (Len(request) = 3) =>
                LET entries == request[3].content.entries
                IN  /\ request[3].role = "system"
                    /\ Len(entries) = Cardinality(Successes(results))
                    /\ \A j \in 1..Len(entries) :
                          /\ ~HasError(entries[j].json)
                          /\ \E k \in Successes(results) :
                                /\ entries[j].toolName = results[k].name
                                /\ entries[j].json = stringify(results[k].result)
                                /\ Cardinality({m \in Successes(results) : m <= k}) = j

\* C20 witness: a request was sent after one selected tool gave an error
\* record and a later one a result, and its context block has the one entry
C20_Witness ==
  \E t \in Tasks :
     /\ Requested(tasks[t])
     /\ Len(tasks[t].toolResults) = 2
     /\ HasError(tasks[t].toolResults[1].result)
     /\ ~HasError(tasks[t].toolResults[2].result)
     /\ Len(tasks[t].request) = 3
     /\ Len(tasks[t].request[3].content.entries) = 1

\* the events of task t that socket s has received
Received(s, name, t) == inbox[s][name][t]

\* a payload with a string message
WellFormed(task) == ~task.data.isNull /\ IsString(task)

InFlight(task) == task.pc \in {"gate", "tool", "llm"}

\* each message has at most one outcome: no socket has more than one copy
\* of its event, no message has both events, and nothing is emitted for a
\* message whose call has not settled
OneOutcome ==
  \A t \in Tasks :
     /\ \A s \in Sockets :
           Received(s, "ai_response", t) + Received(s, "error", t) <= 1
     /\ \A s1, s2 \in Sockets :
           ~(Received(s1, "ai_response", t) > 0 /\ Received(s2, "error", t) > 0)
     /\ \A s \in Sockets :
           (Received(s, "error", t) > 0) =>
             (tasks[t].pc = "errored" /\ tasks[t].socket = s)
     /\ (\E s \in Sockets : Received(s, "ai_response", t) > 0) =>
          (tasks[t].pc = "emitted")
     /\ InFlight(tasks[t]) =>
          \A s \in Sockets :
             Received(s, "ai_response", t) = 0 /\ Received(s, "error", t) = 0

\* C21: every chat_message has at most one outcome event, never both an
\* ai_response and an error; while its completion call is pending nothing
\* is emitted for it, so a call that never completes leaves it without an
\* event; and when every completion call is answered, a message with a
\* string text always reaches its one ai_response emission.
C21_ExactlyOneOutcome ==
  /\ []OneOutcome
  /\ \A t \in Tasks :
        (InFlight(tasks[t]) /\ WellFormed(tasks[t])) ~> (tasks[t].pc = "emitted")

\* C21 witness: a message with a string text went through a completion
\* call and its sender, a member of the session, has the one ai_response
C21_Witness ==
  \E t \in Tasks :
     /\ tasks[t].pc = "emitted"
     /\ WellFormed(tasks[t])
     /\ tasks[t].llmCalls = 1
     /\ Received(tasks[t].socket, "ai_response", t) = 1
     /\ Received(tasks[t].socket, "error", t) = 0

\* the step in which the handler of task t emits its ai_response
Emits(t) == tasks[t].pc # "emitted" /\ tasks'[t].pc = "emitted"

Got(s, t) == inbox'[s]["ai_response"][t] - inbox[s]["ai_response"][t]

\* the rooms a socket is in through join_session
JoinedRooms(s) == rooms[s] \ {SocketId(s)}

\* C22 as claimed: under io.to(sessionId) the sender of a chat_message gets
\* the ai_response exactly when it has joined, with join_session, the room
\* named by the payload's sessionId before the emit.
C22_SenderGetsIffJoined ==
  [][\A t \in Tasks :
       Emits(t) =>
         (Got(tasks[t].socket, t) = 1
            <=> tasks[t].data.sessionId \in JoinedRooms(tasks[t].socket))]_vars

\* C22: under io.to(sessionId) the reply goes to the room named by the
\* payload's sessionId, whoever sent the message: at the emit a socket, the
\* sender included, gets one copy exactly when it is in that room then. A
\* socket is in the room of its own id from its connection, enters a room
\* only by its own join_session and leaves its rooms only by disconnecting;
\* so the sender gets the reply iff it joined the room and has not
\* disconnected since, or the sessionId is its own socket id.
C22_RoutedByPayloadSession ==
  [][/\ \A t \in Tasks :
          Emits(t) =>
            \A s \in Sockets :
               Got(s, t) = (IF tasks[t].data.sessionId \in rooms[s] THEN 1 ELSE 0)
     /\ \A s \in Sockets :
          /\ (status[s] = "new" /\ status'[s] = "connected") =>
               (rooms'[s] = {SocketId(s)})
          /\ (status[s] = "connected" /\ status'[s] = "connected") =>
               /\ rooms[s] \subseteq rooms'[s]
               /\ Cardinality(rooms'[s] \ rooms[s]) <= 1
          /\ (status'[s] = "disconnected") => (rooms'[s] = {})
          /\ (status[s] = "new") => (rooms[s] = {})]_vars

\* C22 witness: a socket that joined no session sent a message for "s1"; the
\* reply went to the other socket, a member of "s1", and not to the sender
C22_Witness ==
  \E t \in Tasks : \E s2 \in Sockets :
     /\ tasks[t].pc = "emitted"
     /\ s2 # tasks[t].socket
     /\ status[tasks[t].socket] = "connected"
     /\ rooms[tasks[t].socket] = {SocketId(tasks[t].socket)}
     /\ tasks[t].data.sessionId = "s1"
     /\ "s1" \in rooms[s2]
     /\ inbox[s2]["ai_response"][t] = 1
     /\ inbox[tasks[t].socket]["ai_response"][t] = 0

(* ------------------------------- C23 ----------------------------------- *)
Range(list) == {list[k] : k \in 1..Len(list)}

\* the names determineRequiredTools can push
ClassifierTools ==
  {"searchPropertyInfo", "calculateMortgage", "getInterestRates",
   "getFinancialCalculator", "getPropertyDetails"}

\* the registry keys that are neither the gate nor pushed by the classifier
UnusedTools ==
  {"getUserChatHistory", "getUserSavedProperties", "getServicedProperties",
   "calculateMortgageAdvanced"}

\* C23: processMessage calls, after the relevance gate it calls directly,
\* only the five tools of the classifier; getUserChatHistory,
\* getUserSavedProperties, getServicedProperties and
\* calculateMortgageAdvanced are never called and are never in toolsUsed
\* or among the tool results; every selected name is a registry key, so the
\* loop never skips a name: at the await of the i-th tool i tools have been
\* called, and at the completion request all the selected ones.
C23_OnlyClassifierTools ==
  \A t \in Tasks :
     LET task == tasks[t]
     IN  /\ \A k \in 1..Len(task.invoked) :
               IF k = 1 THEN task.invoked[k] = GateName
                        ELSE task.invoked[k] \in ClassifierTools
         /\ Range(task.invoked) \cap UnusedTools = {}
         /\ Range(task.toolsToUse) \subseteq ClassifierTools \cap Range(mcpTools)
         /\ Range(Keys(task.toolResults)) \subseteq ClassifierTools
         /\ Returned(task) =>
               /\ Range(Record(task).toolsUsed) \subseteq {GateName} \cup ClassifierTools
               /\ Range(Record(task).toolsUsed) \cap UnusedTools = {}
         /\ task.pc = "tool" => Len(task.invoked) = task.i + 1
         /\ task.llmCalls > 0 =>
               /\ Len(task.invoked) = Len(task.toolsToUse) + 1
               /\ Keys(task.toolResults) = task.toolsToUse

\* C23 witness: a call has returned after the completion request with
\* getInterestRates and another tool selected, both called and both listed
\* in toolsUsed after the gate.
C23_Witness ==
  \E t \in Tasks :
     /\ Returned(tasks[t])
     /\ tasks[t].llmCalls > 0
     /\ Len(tasks[t].toolsToUse) >= 2
     /\ "getInterestRates" \in Range(tasks[t].toolsToUse)
     /\ tasks[t].invoked = <<GateName>> \o tasks[t].toolsToUse
     /\ Record(tasks[t]).toolsUsed = <<GateName>> \o tasks[t].toolsToUse


(* ------------------------------- C24 ----------------------------------- *)
\* C24: replies are not serialized by arrival order. A message at an await
\* of its processMessage call never waits for an earlier message: its step
\* can be taken whatever the state of the other messages, so the reply of
\* a later message can be emitted while an earlier one of the same session
\* still awaits its completion; and each emitted reply carries the
\* sessionId of its own message.
C24_RepliesNotSerialized ==
  \A t \in Tasks :
     /\ tasks[t].pc = "gate" => ENABLED ResumeGate(t)
     /\ tasks[t].pc = "tool" => ENABLED ResumeTool(t)
     /\ tasks[t].pc = "llm" => ENABLED Completion(t)
     /\ tasks[t].pc = "emitted" =>
           Record(tasks[t]).sessionId = tasks[t].data.sessionId

\* C24 witness: two messages of one session; the second, which arrived
\* later, has been answered after its own completion request and a member
\* of the session holds its reply, while the first still awaits its
\* completion and nobody holds a reply to it.
C24_Witness ==
  /\ tasks[1].pc = "llm"
  /\ tasks[2].pc = "emitted"
  /\ tasks[2].llmCalls > 0
  /\ tasks[1].data.sessionId = tasks[2].data.sessionId
  /\ Record(tasks[2]).sessionId = tasks[2].data.sessionId
  /\ \E s \in Sockets : Received(s, "ai_response", 2) = 1
  /\ \A s \in Sockets : Received(s, "ai_response", 1) = 0

====
